---- MODULE Spec2Model ----
(***************************************************************************)
(* Model of the streaming byte-patch reader of package metadata            *)
(* (FileOp, FileOps, FileOps.Copy, FileOps.Reader, opreader.Read).         *)
(*                                                                         *)
(* One behaviour is one run of FileOps.Copy: the copy loop pulls from the  *)
(* opreader with some buffer and pushes what it got to the sink w.  A Read *)
(* call is modelled at the grain of its reads of the underlying source:    *)
(* pc holds the position inside Read (or inside the copy loop).            *)
(*                                                                         *)
(* The source and the sink are any io.Reader and io.Writer.  A read of the  *)
(* source with a non-empty buffer returns at least one byte, io.EOF or an  *)
(* error; it may return fewer bytes than asked for, and it reports io.EOF  *)
(* together with its last bytes (eager) or in a read of its own.  In a     *)
(* faulty run the source may fail, with or without bytes, and the sink may *)
(* fail or accept a part of a chunk.  Copy is the generic loop of io.Copy. *)
(*                                                                         *)
(* Bytes are numbers.  The code never inspects a byte, so the source is    *)
(* the ramp 1, 2, .., L and the Data of edit k is 10k+1, 10k+2, ..: every  *)
(* byte of the output can be traced to the place it came from.             *)
(*                                                                         *)
(* Two further parts, each with a specification of its own, follow the     *)
(* claims about the single reader: two readers made from one FileOps value *)
(* whose Reads interleave (SpecPair), and Copy and Decode of package exif  *)
(* with the package-level header patterns (SpecExif).                      *)
(***************************************************************************)
EXTENDS Integers, Sequences, FiniteSets, TLC

\* ---------------------------------------------------------------- bounds
\* length of the source
MaxSrc == 3
\* number of edits of a FileOps value
MaxOps == 2
\* Offset of an edit
MaxOff == 2
\* source bytes the edits of a FileOps value replace, in all
MaxSize == 2
\* bytes of Data the edits of a FileOps value hold, in all
MaxData == 2
\* the caller's small buffers are 1..MaxBuf
MaxBuf == 2

\* make([]byte, 4096): the length of the reader's scratch buffer r.tmp
skipbufsize == 4096

\* a buffer large enough for the whole output of any run of the model
BigBuf == MaxSrc + MaxData

BufSizes == (1..MaxBuf) \cup {BigBuf}

Min(a, b) == IF a < b THEN a ELSE b

\* ------------------------------------------------------------ error values
Nil == "nil"
EOF == "io.EOF"
ErrUnexpectedEOF == "io.ErrUnexpectedEOF"
ErrShortWrite == "io.ErrShortWrite"
ErrSrc == "source error"
ErrSink == "sink error"

VARIABLES
    src,      \* the bytes the source r will deliver
    eager,    \* the source reports io.EOF together with its last bytes
    faulty,   \* the source and the sink may fail in this run
    spos,     \* number of bytes the source has delivered
    ops,      \* the FileOps value
    pc,       \* position of the run
    i,        \* opreader.i
    do,       \* opreader.do
    ro,       \* opreader.ro
    plen,     \* len(p): what is left of the caller's buffer in this Read
    n,        \* bytes placed in the caller's buffer in this Read
    buf,      \* those bytes
    derr,     \* the err of the discard loop
    err,      \* the error the last Read returned
    sink,     \* bytes the sink w has accepted
    nw,       \* the copy loop's nw: what the last Write accepted
    ew,       \* the copy loop's ew: the error of the last Write
    written,  \* Copy's result
    cerr,     \* Copy's result error
    serr,     \* the error the source returned from its last read
    onebyte,  \* every buffer the caller has passed to Read so far had 1 byte
    rd,       \* two readers over the one FileOps value: the opreader of each
    scratch,  \* the scratch buffers make([]byte, 4096) of those readers
    hdr,      \* package exif: the package-level header patterns
    xc        \* package exif: the call of Copy or Decode under way

\* the state of the two readers over one list, and of package exif
pairvars == <<rd, scratch>>

exifvars == <<hdr, xc>>

\* the state of the single reader and of its copy loop
copyvars == <<src, spos, pc, i, do, ro, plen, n, buf, derr, err, sink, nw, ew,
              written, cerr, serr, onebyte>>

vars == <<src, eager, faulty, spos, ops, pc, i, do, ro, plen, n, buf, derr, err,
          sink, nw, ew, written, cerr, serr, onebyte, rd, scratch, hdr, xc>>

\* ------------------------------------------------------------------ FileOp
MkData(k, len) == [j \in 1..len |-> 10 * k + j]

FileOp(k, off, size, len) ==
    [Offset |-> off, Size |-> size, Data |-> MkData(k, len)]

\* The FileOps values of cnt edits, numbered from k on, that replace sz source
\* bytes and hold dl bytes of Data in all; with asc, each edit starts where
\* the one before it ends, or later.
RECURSIVE FileOpsOf(_, _, _, _, _, _)
FileOpsOf(cnt, k, from, sz, dl, asc) ==
    IF cnt = 0 THEN {<<>>}
    ELSE UNION { { <<FileOp(k, t[1], t[2], t[3])>> \o rest :
                     rest \in FileOpsOf(cnt - 1, k + 1,
                                        IF asc THEN t[1] + t[2] ELSE 0,
                                        sz - t[2], dl - t[3], asc) } :
                 t \in (from..MaxOff) \X (0..sz) \X (0..dl) }

FileOps(asc) ==
    UNION { FileOpsOf(cnt, 1, 0, MaxSize, MaxData, asc) : cnt \in 0..MaxOps }

\* ------------------------------------------------------------------ source
\* r.r.Read(q) with len(q) = k: the outcomes an io.Reader may produce, for the
\* source that delivers s and has delivered pos bytes of it; eg: it reports
\* io.EOF together with its last bytes; fl: it may fail.
SrcReadOf(s, pos, eg, fl, k) ==
    LET rem == Len(s) - pos
        cap == Min(k, rem)
        good == IF cap = 0
                THEN IF rem > 0 THEN {[m |-> 0, e |-> Nil]}
                     ELSE IF k > 0 THEN {[m |-> 0, e |-> EOF]}
                     ELSE {[m |-> 0, e |-> Nil], [m |-> 0, e |-> EOF]}
                ELSE {[m |-> mm, e |-> IF eg /\ mm = rem THEN EOF ELSE Nil] :
                        mm \in 1..cap}
        bad == IF fl THEN {[m |-> mm, e |-> ErrSrc] : mm \in 0..cap} ELSE {}
    IN  good \cup bad

\* the same for the source of the single reader
SrcRead(k) == SrcReadOf(src, spos, eager, faulty, k)

SrcBytes(m) == SubSeq(src, spos + 1, spos + m)

\* -------------------------------------------------------------------- sink
\* w.Write(b) with len(b) = k: the outcomes an io.Writer may produce.
SinkWrite(k) ==
    LET bad == IF faulty
               THEN {[nw |-> w, ew |-> Nil] : w \in 0..(k - 1)}
                      \cup {[nw |-> w, ew |-> ErrSink] : w \in 0..k}
               ELSE {}
    IN  {[nw |-> k, ew |-> Nil]} \cup bad

\* the source range of an edit is [Offset, RangeEnd)
RangeEnd(e) == e.Offset + e.Size

\* "Offset and Size must not overlap with other FileOps": each edit ends
\* where the next one starts, or before
Valid(o) == \A k \in 1..(Len(o) - 1) : RangeEnd(o[k]) <= o[k + 1].Offset

\* -------------------------------------------------------------------- Init
\* no second reader and no call of package exif in the runs of Copy
PairOff == rd = <<>> /\ scratch = <<>>

ExifOff == hdr = <<>> /\ xc = <<>>

Start ==
    /\ PairOff /\ ExifOff
    /\ src \in {[j \in 1..len |-> j] : len \in 0..MaxSrc}
    /\ eager \in BOOLEAN
    /\ spos = 0
    /\ pc = "new"
    /\ i = 0 /\ do = 0 /\ ro = 0
    /\ plen = 0 /\ n = 0 /\ buf = <<>>
    /\ derr = Nil /\ err = Nil
    /\ sink = <<>> /\ nw = 0 /\ ew = Nil /\ written = 0 /\ cerr = Nil
    /\ serr = Nil /\ onebyte = TRUE

\* a FileOps value that keeps the rule of the FileOp comment; nothing fails
Init == ops \in FileOps(TRUE) /\ faulty = FALSE /\ Start

\* the same, with a source and a sink that may fail
InitFaulty == ops \in FileOps(TRUE) /\ faulty = TRUE /\ Start

\* any FileOps value: the type is a plain slice, nothing checks the rule
InitAny == ops \in FileOps(FALSE) /\ faulty = FALSE /\ Start

\* ------------------------------------------------------------ opreader.Read
Cur == ops[i + 1]

PrefaceNoCap(lenp, ncopy) == lenp

\* q := p; if int64(len(p)) > ncopy { q = q[:int(ncopy)] }
PrefaceLen(lenp, ncopy) == IF lenp > ncopy THEN ncopy ELSE lenp

YieldDataNone(data, d, lenp) == <<>>

YieldDataRestart(data, d, lenp) == SubSeq(data, 1, Min(lenp, Len(data) - d))

\* copy(p, o.Data[r.do:]): the bytes copied
YieldData(data, d, lenp) == SubSeq(data, d + 1, d + Min(lenp, Len(data) - d))

\* tmp := r.tmp; if len(tmp) < len(p) { tmp = p }
TmpLen(lenp) == IF skipbufsize < lenp THEN lenp ELSE skipbufsize

DiscardLenNoCap(end, r, lentmp) == lentmp

\* m := int(end - r.ro); if len(tmp) < m { m = len(tmp) }
DiscardLen(end, r, lentmp) == IF lentmp < end - r THEN lentmp ELSE end - r

EndNoSize(o) == o.Offset

\* end := o.Offset + int64(o.Size)
End(o) == o.Offset + o.Size

OpDoneNever(r, end) == FALSE

\* if r.ro == end { r.i++; r.do = 0 }
OpDone(r, end) == r = end

CopyErrKeepsEOF(er) == er

\* what Copy returns for the error er of the reader
CopyErr(er) == IF er = EOF THEN Nil ELSE er

ReturnWrapped(e) == /\ pc' = "ret"
                    /\ err' = IF e \in {Nil, EOF} THEN e ELSE ErrUnexpectedEOF

\* return n, e
Return(e) == /\ pc' = "ret"
             /\ err' = e

\* ops.Reader(r): &opreader{r: r, ops: ops, tmp: make([]byte, 4096)}
Reader ==
    /\ pc = "new"
    /\ pc' = "ready"
    /\ i' = 0 /\ do' = 0 /\ ro' = 0
    /\ UNCHANGED <<pairvars, exifvars>>
    /\ UNCHANGED <<src, eager, faulty, spos, ops, plen, n, buf, derr, err, sink,
                   nw, ew, written, cerr, serr, onebyte>>

\* the copy loop calls Read(p) with a buffer of b bytes
CallRead ==
    /\ pc = "ready"
    /\ \E b \in BufSizes : plen' = b /\ onebyte' = (onebyte /\ b = 1)
    /\ n' = 0 /\ buf' = <<>> /\ err' = Nil /\ derr' = Nil
    /\ pc' = "loop"
    /\ UNCHANGED <<pairvars, exifvars>>
    /\ UNCHANGED <<src, eager, faulty, spos, ops, i, do, ro, sink, nw, ew, written,
                   cerr, serr>>

\* read bytes from source before offset
Preface ==
    /\ pc = "loop"
    /\ i < Len(ops)
    /\ Cur.Offset - ro > 0
    /\ \E r \in SrcRead(PrefaceLen(plen, Cur.Offset - ro)) :
          /\ buf' = buf \o SrcBytes(r.m)
          /\ plen' = plen - r.m
          /\ n' = n + r.m
          /\ ro' = ro + r.m
          /\ spos' = spos + r.m
          /\ serr' = r.e
          /\ IF r.e # Nil THEN Return(r.e)
             ELSE IF ro + r.m < Cur.Offset THEN Return(Nil)
             ELSE pc' = "data" /\ err' = err
    /\ UNCHANGED <<pairvars, exifvars>>
    /\ UNCHANGED <<src, eager, faulty, ops, i, do, derr, sink, nw, ew, written, cerr,
                   onebyte>>

\* yield op data
Yield ==
    /\ \/ pc = "data"
       \/ pc = "loop" /\ i < Len(ops) /\ Cur.Offset - ro <= 0
    /\ LET d == YieldData(Cur.Data, do, plen)
       IN  /\ buf' = buf \o d
           /\ plen' = plen - Len(d)
           /\ n' = n + Len(d)
           /\ do' = do + Len(d)
           /\ IF do + Len(d) < Len(Cur.Data) THEN Return(Nil)
              ELSE pc' = "discard" /\ err' = err
    /\ derr' = Nil
    /\ UNCHANGED <<pairvars, exifvars>>
    /\ UNCHANGED <<src, eager, faulty, spos, ops, i, ro, sink, nw, ew, written, cerr,
                   serr, onebyte>>

\* discard skipped bytes from source: one turn of the loop
Discard ==
    /\ pc = "discard"
    /\ ro < End(Cur) /\ derr = Nil
    /\ \E r \in SrcRead(DiscardLen(End(Cur), ro, TmpLen(plen))) :
          /\ ro' = ro + r.m
          /\ spos' = spos + r.m
          /\ derr' = r.e
          /\ serr' = r.e
    /\ UNCHANGED <<pairvars, exifvars>>
    /\ UNCHANGED <<src, eager, faulty, ops, pc, i, do, plen, n, buf, err, sink, nw, ew,
                   written, cerr, onebyte>>

\* after the discard loop
AfterDiscard ==
    /\ pc = "discard"
    /\ ~(ro < End(Cur) /\ derr = Nil)
    /\ IF OpDone(ro, End(Cur))
       THEN i' = i + 1 /\ do' = 0
       ELSE UNCHANGED <<i, do>>
    /\ IF derr # Nil THEN Return(derr)
       ELSE pc' = "loop" /\ err' = err
    /\ UNCHANGED <<pairvars, exifvars>>
    /\ UNCHANGED <<src, eager, faulty, spos, ops, ro, plen, n, buf, derr, sink, nw, ew,
                   written, cerr, serr, onebyte>>

PassThroughDropsCount ==
    /\ pc = "loop"
    /\ i >= Len(ops)
    /\ \E r \in SrcRead(plen) :
          /\ spos' = spos + r.m
          /\ serr' = r.e
          /\ Return(r.e)
    /\ UNCHANGED <<pairvars, exifvars>>
    /\ UNCHANGED <<src, eager, faulty, ops, i, do, ro, plen, n, buf, derr, sink, nw, ew,
                   written, cerr, onebyte>>

\* past last op
PassThrough ==
    /\ pc = "loop"
    /\ i >= Len(ops)
    /\ \E r \in SrcRead(plen) :
          /\ buf' = buf \o SrcBytes(r.m)
          /\ plen' = plen - r.m
          /\ n' = n + r.m
          /\ spos' = spos + r.m
          /\ serr' = r.e
          /\ Return(r.e)
    /\ UNCHANGED <<pairvars, exifvars>>
    /\ UNCHANGED <<src, eager, faulty, ops, i, do, ro, derr, sink, nw, ew, written,
                   cerr, onebyte>>

\* ------------------------------------------------------------- FileOps.Copy
\* io.Copy(w, ops.Reader(r)): what the loop does with the (n, err) of a Read
CopyChunk ==
    /\ pc = "ret"
    /\ \E w \in (IF n > 0 THEN SinkWrite(n) ELSE {[nw |-> 0, ew |-> Nil]}) :
          /\ sink' = sink \o SubSeq(buf, 1, w.nw)
          /\ nw' = w.nw /\ ew' = w.ew
          /\ written' = written + w.nw
          /\ IF w.ew # Nil THEN pc' = "done" /\ cerr' = w.ew
             ELSE IF w.nw # n THEN pc' = "done" /\ cerr' = ErrShortWrite
             ELSE IF err # Nil THEN pc' = "done" /\ cerr' = CopyErr(err)
             ELSE pc' = "ready" /\ cerr' = cerr
    /\ UNCHANGED <<pairvars, exifvars>>
    /\ UNCHANGED <<src, eager, faulty, spos, ops, i, do, ro, plen, n, buf, derr, err,
                   serr, onebyte>>

Next ==
    \/ Reader
    \/ CallRead
    \/ Preface
    \/ Yield
    \/ Discard
    \/ AfterDiscard
    \/ PassThrough
    \/ CopyChunk

Spec == Init /\ [][Next]_vars

SpecFaulty == InitFaulty /\ [][Next]_vars

SpecAny == InitAny /\ [][Next]_vars

\* the run goes on while a step is possible: Copy and Read are sequential
\* code that blocks only in the reads of the source and the writes of the sink
SpecFaultyFair == InitFaulty /\ [][Next]_vars /\ WF_vars(Next)

SpecAnyFair == InitAny /\ [][Next]_vars /\ WF_vars(Next)

TypeOK ==
    /\ pc \in {"new", "ready", "loop", "data", "discard", "ret", "done"}
    /\ spos \in 0..Len(src)
    /\ i \in 0..Len(ops)
    /\ plen >= 0
    /\ n = Len(buf)
    /\ written = Len(sink)

\* ------------------------------------------------- one pull, whole output
\* What Read yields from edit k on (1-based), at source offset r, when the
\* caller's buffer holds the whole output and every read of the source
\* returns all the bytes asked for that the source still has: the bytes
\* placed until Read signals end-of-stream.  For lists that keep Valid.
RECURSIVE OnePull(_, _, _, _, _)
OnePull(s, o, eg, k, r) ==
    IF k > Len(o) THEN SubSeq(s, r + 1, Len(s))
    ELSE LET e == o[k]
             ncopy == e.Offset - r
             m1 == IF ncopy > 0 THEN Min(ncopy, Len(s) - r) ELSE 0
             r1 == r + m1
             eof1 == ncopy > 0 /\ (m1 < ncopy \/ (eg /\ r1 = Len(s)))
             need == End(e) - r1
             m2 == IF need > 0 THEN Min(need, Len(s) - r1) ELSE 0
             r2 == r1 + m2
             eof2 == need > 0 /\ (m2 < need \/ (eg /\ r2 = Len(s)))
         IN  SubSeq(s, r + 1, r1) \o
               (IF eof1 THEN <<>>
                ELSE e.Data \o (IF eof2 THEN <<>> ELSE OnePull(s, o, eg, k + 1, r2)))

\* ================================================================== claims
\* every edit lies within the source
Within(o, s) == \A k \in 1..Len(o) : RangeEnd(o[k]) <= Len(s)

\* the copy ended without an error: the reader signalled end-of-stream and
\* the sink took every chunk whole, so sink is the drained output
Drained == pc = "done" /\ cerr = Nil

\* the patched stream: the edits applied to s, the last one first
ApplyOp(s, e) == SubSeq(s, 1, e.Offset) \o e.Data \o SubSeq(s, RangeEnd(e) + 1, Len(s))

RECURSIVE Patched(_, _)
Patched(s, o) ==
    IF o = <<>> THEN s
    ELSE Patched(ApplyOp(s, o[Len(o)]), SubSeq(o, 1, Len(o) - 1))

IsPrefix(a, b) == Len(a) <= Len(b) /\ a = SubSeq(b, 1, Len(a))

Range(f) == {f[x] : x \in DOMAIN f}

\* C1: buffer-size independence.  For a valid edit list within the source and
\* any sequence of buffer sizes >= 1, the bytes drained until end-of-stream
\* are the bytes of one pull with a buffer large enough for the whole output.
C1_BufferSizeIndependence ==
    (Drained /\ Valid(ops) /\ Within(ops, src))
        => sink = OnePull(src, ops, eager, 1, 0)

\* C1 witness: two edits drained with 1-byte buffers only, the Data of an edit
\* longer than the buffer
C1_Witness ==
    /\ Drained /\ Within(ops, src)
    /\ onebyte /\ written > 0
    /\ Len(ops) = 2
    /\ Len(ops[1].Data) = 2 /\ ops[2].Size = 2
    /\ Len(sink) >= 3

\* C2: mismatch detection.  When some edit ends beyond the source and neither
\* the source nor the sink fails, the copy ends with io.ErrUnexpectedEOF.
C2_MismatchDetected ==
    (pc = "done" /\ Valid(ops) /\ ~Within(ops, src)
       /\ cerr \notin {ErrSrc, ErrSink, ErrShortWrite})
        => cerr = ErrUnexpectedEOF

\* C3: pure insertion.  One edit {o, 0, d} with d not empty and o <= L drains
\* to input[0:o] + d + input[o:].
C3_PureInsertion ==
    (Drained /\ Len(ops) = 1 /\ ops[1].Size = 0 /\ Len(ops[1].Data) > 0
       /\ ops[1].Offset <= Len(src))
        => /\ sink = SubSeq(src, 1, ops[1].Offset) \o ops[1].Data
                       \o SubSeq(src, ops[1].Offset + 1, Len(src))
           /\ Len(sink) = Len(src) + Len(ops[1].Data)

\* C4: pure deletion.  One edit {o, s, empty} with s > 0 and o+s <= L drains
\* to input[0:o] + input[o+s:], of length L - s, with no deleted byte in it.
C4_PureDeletion ==
    (Drained /\ Len(ops) = 1 /\ ops[1].Size > 0 /\ ops[1].Data = <<>>
       /\ Within(ops, src))
        => /\ sink = SubSeq(src, 1, ops[1].Offset)
                       \o SubSeq(src, RangeEnd(ops[1]) + 1, Len(src))
           /\ Len(sink) = Len(src) - ops[1].Size
           /\ \A j \in (ops[1].Offset + 1)..RangeEnd(ops[1]) : src[j] \notin Range(sink)

\* C4 witness: a deletion of two bytes up to the last byte of the source, with
\* a source that reports end-of-stream together with its last byte
C4_Witness ==
    /\ Drained /\ Len(ops) = 1 /\ ops[1].Data = <<>>
    /\ ops[1].Size = 2 /\ ops[1].Offset > 0 /\ RangeEnd(ops[1]) = Len(src)
    /\ eager
    /\ sink = SubSeq(src, 1, ops[1].Offset)

\* C5: overwrite.  One edit {o, s, d} with len(d) = s and o+s <= L drains to L
\* bytes: [0,o) and [o+s,L) as in the source, [o,o+s) is d.
C5_Overwrite ==
    (Drained /\ Len(ops) = 1 /\ Len(ops[1].Data) = ops[1].Size
       /\ Within(ops, src))
        => /\ Len(sink) = Len(src)
           /\ \A j \in 1..Len(src) :
                 sink[j] = IF j > ops[1].Offset /\ j <= RangeEnd(ops[1])
                           THEN ops[1].Data[j - ops[1].Offset]
                           ELSE src[j]

\* C5 witness: two bytes overwritten in the middle of a three-byte source
C5_Witness ==
    /\ Drained /\ Len(ops) = 1 /\ Len(src) = 3
    /\ ops[1].Offset = 1 /\ ops[1].Size = 2 /\ Len(ops[1].Data) = 2
    /\ sink = <<src[1]>> \o ops[1].Data

\* C6: identity.  With no edits the drained output is the source, and a Read
\* signals end-of-stream exactly when the source's read signalled it.
C6_Identity ==
    /\ (Drained /\ ops = <<>>) => sink = src
    /\ (pc = "ret" /\ ops = <<>>) =>
          /\ (err = EOF) <=> (serr = EOF)
          /\ sink \o buf = SubSeq(src, 1, spos)

\* C6 witness: a source of three bytes or more drained byte by byte
C6_Witness ==
    /\ Drained /\ ops = <<>>
    /\ onebyte /\ written > 0 /\ Len(src) >= 3 /\ sink = src

\* the edits applied one at a time through a reader with a one-edit list:
\* edit k with its offset moved by shift, to the result so far
RECURSIVE OneAtATime(_, _, _, _, _)
OneAtATime(s, o, eg, k, shift) ==
    IF k > Len(o) THEN s
    ELSE OneAtATime(OnePull(s, <<[o[k] EXCEPT !.Offset = @ + shift]>>, eg, 1, 0),
                    o, eg, k + 1, shift + Len(o[k].Data) - o[k].Size)

\* C7: composability.  Draining one reader over a valid list within the source
\* gives the bytes of the edits applied one at a time, in ascending order, each
\* offset moved by the (len(Data) - Size) of the edits before it.
C7_Composable ==
    (Drained /\ Valid(ops) /\ Within(ops, src))
        => sink = OneAtATime(src, ops, eager, 1, 0)

\* offsets strictly ascending and source ranges disjoint
StrictValid(o) ==
    \A k \in 1..(Len(o) - 1) :
        o[k].Offset < o[k + 1].Offset /\ RangeEnd(o[k]) <= o[k + 1].Offset

\* C8: edit-set validation.  A list whose offsets are not strictly ascending
\* or whose ranges overlap never reaches a Read call of the patch reader.
C8_InvalidRejected ==
    pc \in {"loop", "data", "discard", "ret"} => StrictValid(ops)

\* a push was made in the last round of the copy loop
Pushed == n > 0

RECURSIVE Gain(_, _)
\* len(Data) - Size summed over the first k edits
Gain(o, k) == IF k = 0 THEN 0 ELSE Gain(o, k - 1) + Len(o[k].Data) - o[k].Size

\* the number of output bytes the reader has produced, from its cursors
Produced ==
    Gain(ops, i) +
        (IF i >= Len(ops) THEN spos
         ELSE IF ro <= Cur.Offset THEN ro + do
         ELSE Cur.Offset + do)

\* C10: partial result plus error.  A Read in which the source fails returns
\* the source's error itself and the count of the bytes it placed, which are
\* the next bytes of the patched output.
C10_PartialResultPlusError ==
    (pc = "ret" /\ serr = ErrSrc) =>
        /\ err = serr
        /\ n = Len(buf)
        /\ (Valid(ops) /\ Within(ops, src)) =>
              /\ IsPrefix(sink \o buf, Patched(src, ops))
              /\ Len(sink) + n = Produced

\* C10 witness: the source fails in the discard phase of a Read that has
\* copied a source byte and emitted edit data, after an earlier Read
C10_Witness ==
    /\ pc = "ret" /\ serr = ErrSrc /\ derr = ErrSrc
    /\ Within(ops, src)
    /\ n >= 2 /\ Len(sink) >= 1
    /\ err = ErrSrc

\* bytes of Data the edits of o hold, in all
RECURSIVE DataTotal(_)
DataTotal(o) == IF o = <<>> THEN 0 ELSE Len(o[1].Data) + DataTotal(Tail(o))

\* C12: forward progress.  With a valid list, a Read with a buffer of N >= 1
\* bytes returns at most N bytes and at least one, or an error or end-of-stream
\* with it; what the reads have returned in all is bounded by the source and
\* the Data, so the repeated pulls end.
C12_ForwardProgress ==
    /\ pc = "ret" =>
          /\ n >= 0 /\ plen >= 0
          /\ n >= 1 \/ err # Nil
    /\ pc \in {"ret", "ready", "done"} =>
          Len(sink) + (IF pc = "ret" THEN n ELSE 0) <= Len(src) + DataTotal(ops)

\* C12, the consequence: the repeated pulls end with end-of-stream or an error
C12_PullsEnd == <>(pc = "done")

\* C12 witness: a Read that returns one byte and no error though the buffer
\* has room for more, after an earlier Read
C12_Witness ==
    /\ pc = "ret" /\ err = Nil
    /\ n = 1 /\ plen >= 1
    /\ Len(sink) >= 1

\* C20: source-offset cursor.  In every state of a patch reader, pass-through
\* after the last edit included, ro is the number of bytes the reader has
\* consumed from the source (spos, the position of the source).
C20_SourceOffsetCursor == ro = spos

\* the part of C20 the code keeps: ro counts the source while an edit is ahead
C20_CursorBeforeLastEdit == (i < Len(ops) => ro = spos) /\ ro <= spos

\* the output the reader has delivered so far: what the sink holds and, during
\* a Read and at its return, what the Read has put into p
Out == IF pc \in {"loop", "data", "discard", "ret"} THEN sink \o buf ELSE sink

\* C15, in a state: the do bytes of the current edit's Data emitted so far are
\* the last bytes of the output, in order, at the place of the edit; while
\* part of the Data is still to come the source stands at the edit's offset
\* and the reader is between two Reads or about to emit
C15_Emitted ==
    (i < Len(ops) /\ do > 0) =>
        /\ do <= Len(Cur.Data)
        /\ Len(Out) = Gain(ops, i) + Cur.Offset + do
        /\ SubSeq(Out, Len(Out) - do + 1, Len(Out)) = SubSeq(Cur.Data, 1, do)
        /\ do < Len(Cur.Data) =>
              /\ ro = Cur.Offset /\ spos = ro
              /\ pc \in {"ret", "ready", "loop"}

\* C15, in a step: Data is emitted only with the source at the edit's offset,
\* from Data[do:] on, as much as fits, without a read of the source and
\* without a change of the edit index; when the buffer is full before the end
\* of Data, Read returns with no error; do goes back to 0 only after the whole
\* of Data
C15_EmitStep ==
    /\ do' > do =>
          /\ ro = Cur.Offset
          /\ i' = i /\ ro' = ro /\ spos' = spos
          /\ do' - do <= plen
          /\ buf' = buf \o SubSeq(Cur.Data, do + 1, do')
          /\ do' < Len(Cur.Data) => (pc' = "ret" /\ err' = Nil /\ plen' = 0)
    /\ do' < do => (do' = 0 /\ do = Len(Cur.Data) /\ i' = i + 1)

\* C15: resumable edit-data emission.  When the buffer fills before all of the
\* current edit's Data is out, Read returns what fits without advancing the
\* edit index and without reading the source; the next Reads go on from
\* Data[do:], so every byte of Data is emitted once, in order and in one
\* piece, and emission starts only with the source offset at the edit's offset.
C15_ResumableEmission == [](C15_Emitted) /\ [][C15_EmitStep]_vars

\* C15 witness: between two Reads, one byte of a Data of two bytes is out,
\* after a preface of at least one source byte
C15_Witness ==
    /\ pc = "ready" /\ i < Len(ops)
    /\ do = 1 /\ Len(Cur.Data) = 2
    /\ ro = Cur.Offset /\ ro >= 1
    /\ Len(sink) = ro + 1

\* C16, in a state: the source offset is past the offset of the current edit
\* only with all of its Data out, and never past offset+size; in the discard
\* all of Data is out
C16_InRange ==
    i < Len(ops) =>
        /\ ro <= RangeEnd(Cur)
        /\ ro > Cur.Offset => do = Len(Cur.Data)
        /\ pc = "discard" => (do = Len(Cur.Data) /\ ro >= Cur.Offset)

\* C16, in a step: a read of the discard loop takes at most the bytes up to
\* offset+size from the source and puts none of them into p or n, and there is
\* none for Size == 0; leaving the loop, the edit index advances and do goes
\* to 0 exactly when ro is offset+size; an empty Data adds nothing to p
C16_DiscardStep ==
    /\ (pc = "discard" /\ pc' = "discard") =>
          /\ Cur.Size > 0
          /\ ro' - ro = spos' - spos
          /\ ro' >= ro /\ ro' <= RangeEnd(Cur)
          /\ n' = n /\ buf' = buf /\ plen' = plen
          /\ i' = i /\ do' = do
    /\ (pc = "discard" /\ pc' # "discard") =>
          /\ spos' = spos /\ ro' = ro /\ n' = n /\ buf' = buf
          /\ IF ro = RangeEnd(Cur) THEN i' = i + 1 /\ do' = 0
             ELSE i' = i /\ do' = do
    /\ i' # i => (pc = "discard" /\ ro = RangeEnd(Cur) /\ spos - Cur.Size >= Cur.Offset)
    /\ (pc' = "discard" /\ pc # "discard") =>
          (Len(Cur.Data) = 0 => (buf' = buf /\ n' = n))

\* C16: discard phase.  The discard of an edit starts only after all of its
\* Data is out, takes exactly Size bytes from the source and never reads past
\* offset+size, also with short reads, counts none of them in n, and the edit
\* index advances and do is reset exactly when the source offset is
\* offset+size; Size == 0 reads nothing in this phase and an empty Data emits
\* nothing before the discard.
C16_DiscardPhase == [](C16_InRange) /\ [][C16_DiscardStep]_vars

\* C16 witness: in the discard of an edit of Size 2 after a short read of one
\* byte, the Data of the edit emitted and counted in n
C16_Witness ==
    /\ pc = "discard" /\ i < Len(ops)
    /\ Cur.Size = 2 /\ ro = Cur.Offset + 1
    /\ Len(Cur.Data) = 1 /\ do = 1 /\ n >= 1

\* the reader is between two Reads: after a return or before the first call
BetweenReads == pc \in {"ready", "ret", "done"}

\* i and ro never decrease
CursorsGrow == [][i' >= i /\ ro' >= ro]_vars

\* C18 as stated: cursor invariants.  After any sequence of Reads over a valid
\* list, 0 <= i <= len(ops); while i < len(ops), 0 <= do <= len(Data),
\* ro <= Offset + Size, and do > 0 only if ro == Offset; do == 0 once
\* i == len(ops); i and ro never decrease.
C18_CursorInvariants ==
    /\ [](BetweenReads =>
            /\ i \in 0..Len(ops)
            /\ i < Len(ops) =>
                  /\ do \in 0..Len(Cur.Data)
                  /\ ro <= RangeEnd(Cur)
                  /\ do > 0 => ro = Cur.Offset
            /\ i = Len(ops) => do = 0)
    /\ CursorsGrow

\* C18 with the case the code adds: a Read that the source ends or fails in
\* the discard of an edit returns with all of that edit's Data out and ro
\* inside the edit's range
C18_CursorInvariantsOrCutDiscard ==
    /\ [](BetweenReads =>
            /\ i \in 0..Len(ops)
            /\ i < Len(ops) =>
                  /\ do \in 0..Len(Cur.Data)
                  /\ ro <= RangeEnd(Cur)
                  /\ do > 0 =>
                        \/ ro = Cur.Offset
                        \/ /\ do = Len(Cur.Data)
                           /\ Cur.Offset < ro /\ ro < RangeEnd(Cur)
                           /\ err # Nil
            /\ i = Len(ops) => do = 0)
    /\ CursorsGrow

\* C18 witness: a Read has returned the error of the source from the discard
\* of an edit, with the edit's Data out and ro inside its range
C18_Witness ==
    /\ pc = "ret" /\ i < Len(ops)
    /\ err = ErrSrc
    /\ do = Len(Cur.Data) /\ do > 0
    /\ Cur.Offset < ro /\ ro < RangeEnd(Cur)

\* a Read is under way
InRead == pc \in {"loop", "data", "discard"}

\* C17: every Read returns.  For every edit list, lists with edits out of
\* order or overlapping included, a Read that has been called returns after
\* finitely many steps when every read of the source returns.
C17_ReadReturns == InRead ~> (pc = "ret")

\* the turn of the loop of Read that C17 rules out: the discard is left with
\* no error and the edit index unchanged, nothing read and nothing put into p
\* since the top of the loop
C17_IdleTurn ==
    /\ pc = "discard" /\ derr = Nil
    /\ ~(ro < End(Cur)) /\ ~OpDone(ro, End(Cur))
    /\ do = Len(Cur.Data)

\* ------------------------------------------- two readers over one FileOps
\* Two goroutines, each with the opreader that ops.Reader gave it for a source
\* of its own; ops is the one FileOps value both were made from.  rd[x] holds
\* the opreader of reader x and the Read call it is in, scratch[b] the bytes
\* that have been read into scratch buffer b.  The steps of the two Reads
\* interleave at the grain of the reads of the sources.
Readers == {1, 2}

\* the source of reader x delivers 100x+1, 100x+2, ..: no byte is in two
\* sources; the two sources of a run have the same length
SrcOf(x, len) == [j \in 1..len |-> 100 * x + j]

SharedTmp(x) == 1

\* tmp: make([]byte, 4096): every call of Reader makes a buffer of its own
NewTmp(x) == x

\* reader x before ops.Reader has made its opreader
NoReader(x, len) ==
    [s |-> SrcOf(x, len), pos |-> 0, pc |-> "new", i |-> 0, do |-> 0, ro |-> 0,
     tmp |-> 0, plen |-> 0, n |-> 0, buf |-> <<>>, derr |-> Nil, err |-> Nil,
     out |-> <<>>]

\* the single reader and its copy loop do not run
CopyOff ==
    /\ src = <<>> /\ spos = 0 /\ pc = "new"
    /\ i = 0 /\ do = 0 /\ ro = 0
    /\ plen = 0 /\ n = 0 /\ buf = <<>>
    /\ derr = Nil /\ err = Nil
    /\ sink = <<>> /\ nw = 0 /\ ew = Nil /\ written = 0 /\ cerr = Nil
    /\ serr = Nil /\ onebyte = TRUE

InitPair ==
    /\ ops \in FileOps(TRUE) /\ eager \in BOOLEAN /\ faulty = FALSE
    /\ rd \in {[x \in Readers |-> NoReader(x, len)] : len \in 0..MaxSrc}
    /\ scratch = [b \in Readers |-> <<>>]
    /\ CopyOff /\ ExifOff

\* the current edit of reader x
CurOf(x) == ops[rd[x].i + 1]

\* ops.Reader(r) of reader x
ReaderOf(x) ==
    /\ rd[x].pc = "new"
    /\ rd' = [rd EXCEPT ![x] = [@ EXCEPT !.pc = "ready", !.i = 0, !.do = 0,
                                        !.ro = 0, !.tmp = NewTmp(x)]]
    /\ UNCHANGED <<scratch, ops, eager, faulty, copyvars, exifvars>>

\* reader x is called: Read(p) with a buffer of b bytes
CallReadOf(x) ==
    /\ rd[x].pc = "ready"
    /\ \E b \in BufSizes :
          rd' = [rd EXCEPT ![x] = [@ EXCEPT !.pc = "loop", !.plen = b, !.n = 0,
                                            !.buf = <<>>, !.err = Nil,
                                            !.derr = Nil]]
    /\ UNCHANGED <<scratch, ops, eager, faulty, copyvars, exifvars>>

\* read bytes from source before offset
PrefaceOf(x) ==
    LET R == rd[x]
    IN  /\ R.pc = "loop"
        /\ R.i < Len(ops)
        /\ CurOf(x).Offset - R.ro > 0
        /\ \E r \in SrcReadOf(R.s, R.pos, eager, faulty,
                              PrefaceLen(R.plen, CurOf(x).Offset - R.ro)) :
              rd' = [rd EXCEPT ![x] =
                       [@ EXCEPT !.buf = @ \o SubSeq(R.s, R.pos + 1, R.pos + r.m),
                                 !.plen = @ - r.m,
                                 !.n = @ + r.m,
                                 !.ro = @ + r.m,
                                 !.pos = @ + r.m,
                                 !.err = r.e,
                                 !.pc = IF r.e # Nil THEN "ret"
                                        ELSE IF R.ro + r.m < CurOf(x).Offset
                                             THEN "ret"
                                        ELSE "data"]]
        /\ UNCHANGED <<scratch, ops, eager, faulty, copyvars, exifvars>>

\* yield op data
YieldOf(x) ==
    LET R == rd[x]
    IN  /\ \/ R.pc = "data"
           \/ R.pc = "loop" /\ R.i < Len(ops) /\ CurOf(x).Offset - R.ro <= 0
        /\ LET d == YieldData(CurOf(x).Data, R.do, R.plen)
           IN  rd' = [rd EXCEPT ![x] =
                        [@ EXCEPT !.buf = @ \o d,
                                  !.plen = @ - Len(d),
                                  !.n = @ + Len(d),
                                  !.do = @ + Len(d),
                                  !.derr = Nil,
                                  !.pc = IF R.do + Len(d) < Len(CurOf(x).Data)
                                         THEN "ret" ELSE "discard"]]
        /\ UNCHANGED <<scratch, ops, eager, faulty, copyvars, exifvars>>

\* discard skipped bytes from source: one turn of the loop.  The bytes go to
\* tmp[:m], and tmp is r.tmp unless the rest of p is longer
DiscardOf(x) ==
    LET R == rd[x]
    IN  /\ R.pc = "discard"
        /\ R.ro < End(CurOf(x)) /\ R.derr = Nil
        /\ \E r \in SrcReadOf(R.s, R.pos, eager, faulty,
                              DiscardLen(End(CurOf(x)), R.ro, TmpLen(R.plen))) :
              /\ rd' = [rd EXCEPT ![x] = [@ EXCEPT !.ro = @ + r.m,
                                                   !.pos = @ + r.m,
                                                   !.derr = r.e]]
              /\ IF skipbufsize < R.plen THEN scratch' = scratch
                 ELSE scratch' =
                        [scratch EXCEPT ![R.tmp] =
                           SubSeq(R.s, R.pos + 1, R.pos + r.m)
                             \o SubSeq(@, r.m + 1, Len(@))]
        /\ UNCHANGED <<ops, eager, faulty, copyvars, exifvars>>

\* after the discard loop
AfterDiscardOf(x) ==
    LET R == rd[x]
        done == OpDone(R.ro, End(CurOf(x)))
    IN  /\ R.pc = "discard"
        /\ ~(R.ro < End(CurOf(x)) /\ R.derr = Nil)
        /\ rd' = [rd EXCEPT ![x] =
                    [@ EXCEPT !.i = IF done THEN @ + 1 ELSE @,
                              !.do = IF done THEN 0 ELSE @,
                              !.err = IF R.derr # Nil THEN R.derr ELSE @,
                              !.pc = IF R.derr # Nil THEN "ret" ELSE "loop"]]
        /\ UNCHANGED <<scratch, ops, eager, faulty, copyvars, exifvars>>

\* past last op
PassThroughOf(x) ==
    LET R == rd[x]
    IN  /\ R.pc = "loop"
        /\ R.i >= Len(ops)
        /\ \E r \in SrcReadOf(R.s, R.pos, eager, faulty, R.plen) :
              rd' = [rd EXCEPT ![x] =
                       [@ EXCEPT !.buf = @ \o SubSeq(R.s, R.pos + 1, R.pos + r.m),
                                 !.plen = @ - r.m,
                                 !.n = @ + r.m,
                                 !.pos = @ + r.m,
                                 !.err = r.e,
                                 !.pc = "ret"]]
        /\ UNCHANGED <<scratch, ops, eager, faulty, copyvars, exifvars>>

\* the caller of reader x takes the n bytes of the Read that has returned, and
\* stops calling once a Read has returned an error or end-of-stream
TakeOf(x) ==
    LET R == rd[x]
    IN  /\ R.pc = "ret"
        /\ rd' = [rd EXCEPT ![x] =
                    [@ EXCEPT !.out = @ \o SubSeq(R.buf, 1, R.n),
                              !.pc = IF R.err # Nil THEN "done" ELSE "ready"]]
        /\ UNCHANGED <<scratch, ops, eager, faulty, copyvars, exifvars>>

NextPair ==
    \/ \E x \in Readers : ReaderOf(x)
    \/ \E x \in Readers : CallReadOf(x)
    \/ \E x \in Readers : PrefaceOf(x)
    \/ \E x \in Readers : YieldOf(x)
    \/ \E x \in Readers : DiscardOf(x)
    \/ \E x \in Readers : AfterDiscardOf(x)
    \/ \E x \in Readers : PassThroughOf(x)
    \/ \E x \in Readers : TakeOf(x)

SpecPair == InitPair /\ [][NextPair]_vars

\* C11, in a state: what reader x has delivered is the start of the output
\* it produces alone, and all of it once its Reads have reached end-of-stream;
\* the scratch buffer of a reader is not the other's, and holds bytes of the
\* reader's own source only
C11_EachAlone ==
    \A x \in Readers :
        /\ IsPrefix(rd[x].out, OnePull(rd[x].s, ops, eager, 1, 0))
        /\ (rd[x].pc = "done" /\ rd[x].err = EOF) =>
              rd[x].out = OnePull(rd[x].s, ops, eager, 1, 0)
        /\ rd[x].pc # "new" =>
              /\ rd[x].tmp \in DOMAIN scratch
              /\ \A y \in Readers \ {x} : rd[y].pc # "new" => rd[y].tmp # rd[x].tmp
              /\ Range(scratch[rd[x].tmp]) \subseteq Range(rd[x].s)

\* C11: concurrent replay.  Two readers made from the same FileOps value over
\* different sources, their Reads interleaved in any order, each deliver the
\* output they deliver alone; no step of a Read changes the edit list; the
\* scratch buffer of each reader is its own.
C11_ConcurrentReplay == [](C11_EachAlone) /\ [][ops' = ops]_vars

\* C11 witness: both readers are in the discard of an edit at the same time,
\* each has read into its scratch buffer, and each has delivered bytes before
C11_Witness ==
    /\ \A x \in Readers :
          /\ rd[x].pc = "discard"
          /\ scratch[rd[x].tmp] # <<>>
          /\ rd[x].out # <<>>
    /\ rd[1].i # rd[2].i

\* ------------------------------------------------------------ package exif
\* exif.Copy and exif.Decode.  The JPEG scanner (xjpeg.NewScanner, Next,
\* ReadChunk, Reader) is seen through its calls: it hands over the chunks of r
\* one by one, and Reader gives what has not been read.  A chunk is its bytes:
\* marker (2), length (2), then content.  hdr holds the package-level header
\* patterns, xc the call under way; the reads of r do not fail, the writes to
\* w may fail in a faulty run.  An error is the number of the Write of the
\* call that failed, 0 is nil.

\* chunks after the first one that r holds
MaxChunks == 3
\* calls of Copy and Decode in a run
MaxCalls == 2

\* jfifChunkHeader = "\xff\xe0--JFIF\x00", jfxxChunkHeader = "\xff\xe0--JFXX\x00",
\* exifChunkHeader = "\xff\xe1--Exif\x00\x00"
Headers ==
    [jfifChunkHeader |-> <<255, 224, 45, 45, 74, 70, 73, 70, 0>>,
     jfxxChunkHeader |-> <<255, 224, 45, 45, 74, 70, 88, 88, 0>>,
     exifChunkHeader |-> <<255, 225, 45, 45, 69, 120, 105, 102, 0, 0>>]

\* the chunks of the inputs: start of image, APP0/JFIF, APP0/JFXX, APP1/Exif
\* and a quantization table, with v as content
SOI == <<255, 216>>

JfifChunkOf(v) == <<255, 224, 0, 8, 74, 70, 73, 70, 0, v>>

JfxxChunkOf(v) == <<255, 224, 0, 8, 74, 70, 88, 88, 0, v>>

ExifChunkOf(v) == <<255, 225, 0, 9, 69, 120, 105, 102, 0, 0, v>>

OtherChunkOf(v) == <<255, 219, 0, 3, v>>

ChunkKinds ==
    {JfifChunkOf(1), JfifChunkOf(2), JfxxChunkOf(1), ExifChunkOf(1), OtherChunkOf(1)}

\* what the scanner finds in r: the start of image, then up to MaxChunks chunks
Inputs ==
    UNION { { <<SOI>> \o c : c \in [1..k -> ChunkKinds] } : k \in 0..MaxChunks }

\* the image data of r after its chunks
ImageData == <<1, 2>>

\* x.EncodeBytes() and the chunk xjpeg.WriteChunk(w, 0xe1, exifdata) writes
EncodeBytes == <<69, 120, 105, 102, 0, 0, 7>>

NewExifChunk == <<255, 225, 0, 9>> \o EncodeBytes

RECURSIVE Flatten(_)
Flatten(cs) == IF cs = <<>> THEN <<>> ELSE cs[1] \o Flatten(Tail(cs))

\* cmpChunkHeader(p, h): the bytes p[2] and p[3] (the length) are not compared
cmpChunkHeader(p, h) ==
    /\ Len(p) >= Len(h)
    /\ \A k \in 1..Len(h) : (k = 3 \/ k = 4 \/ p[k] = h[k])

\* the locals of a call of Copy on the chunks in with x # nil iff hasx, as
\* call number c of the run
NewCall(kind, in, hasx, c) ==
    [pc |-> "scan", kind |-> kind, calls |-> c, in |-> in, at |-> 0,
     hasx |-> hasx, chunks |-> <<>>, jfifChunk |-> <<>>, jfxxChunk |-> <<>>,
     hasExif |-> FALSE, has |-> 0, rest |-> 0, out |-> <<>>, nwrite |-> 0,
     wwerr |-> 0, ret |-> 0, failed |-> 0, copied |-> FALSE, raw |-> <<>>]

NoCall == [NewCall("none", <<>>, FALSE, 0) EXCEPT !.pc = "idle"]

InitExif ==
    /\ hdr = Headers
    /\ xc = NoCall
    /\ faulty \in BOOLEAN
    /\ ops = <<>> /\ eager = FALSE
    /\ CopyOff /\ PairOff

\* w.Write(p): the outcomes, as [m: bytes of p that w took, e: error]
Write(p) ==
    {[m |-> Len(p), e |-> 0]} \cup
        (IF faulty THEN {[m |-> k, e |-> xc.nwrite + 1] : k \in {0, Len(p)}}
         ELSE {})

\* Copy(w, r, x) is called
CallCopy ==
    /\ xc.pc \in {"idle", "done"}
    /\ xc.calls < MaxCalls
    /\ \E in \in Inputs, hasx \in BOOLEAN :
          xc' = NewCall("Copy", in, hasx, xc.calls + 1)
    /\ UNCHANGED <<hdr, ops, eager, faulty, copyvars, pairvars>>

\* gets raw exif: the content of the first chunk that has the Exif header
exifFromReader(in) ==
    LET found == {k \in 1..Len(in) : cmpChunkHeader(in[k], hdr.exifChunkHeader)}
    IN  IF found = {} THEN <<>>
        ELSE LET k == CHOOSE a \in found : \A b \in found : a <= b
             IN  SubSeq(in[k], Len(hdr.exifChunkHeader) + 1, Len(in[k]))

\* Decode(r) is called and returns
Decode ==
    /\ xc.pc \in {"idle", "done"}
    /\ xc.calls < MaxCalls
    /\ \E in \in Inputs :
          xc' = [NewCall("Decode", in, FALSE, xc.calls + 1) EXCEPT
                    !.pc = "done", !.raw = exifFromReader(in)]
    /\ UNCHANGED <<hdr, ops, eager, faulty, copyvars, pairvars>>

\* for has < 3 && j.Next(): one turn, with the switch on the chunk read
ScanChunk ==
    /\ xc.pc = "scan"
    /\ xc.has < 3 /\ xc.at < Len(xc.in)
    /\ LET chunk == xc.in[xc.at + 1]
       IN  IF xc.jfifChunk = <<>> /\ cmpChunkHeader(chunk, hdr.jfifChunkHeader)
           THEN /\ hdr' = [hdr EXCEPT !.jfifChunkHeader = chunk]
                /\ xc' = [xc EXCEPT !.at = @ + 1, !.has = @ + 1]
           ELSE IF xc.jfxxChunk = <<>> /\ cmpChunkHeader(chunk, hdr.jfxxChunkHeader)
           THEN /\ hdr' = [hdr EXCEPT !.jfxxChunkHeader = chunk]
                /\ xc' = [xc EXCEPT !.at = @ + 1, !.has = @ + 1]
           ELSE IF ~xc.hasExif /\ cmpChunkHeader(chunk, hdr.exifChunkHeader)
           THEN /\ hdr' = hdr
                /\ xc' = [xc EXCEPT !.at = @ + 1, !.has = @ + 1, !.hasExif = TRUE]
           ELSE /\ hdr' = hdr
                /\ xc' = [xc EXCEPT !.at = @ + 1, !.chunks = Append(@, chunk)]
    /\ UNCHANGED <<ops, eager, faulty, copyvars, pairvars>>

\* ww.write(p): _, w.err = w.w.Write(p); then the call is at pc next
errwWrite(p, next) ==
    \E r \in Write(p) :
        xc' = [xc EXCEPT !.out = @ \o SubSeq(p, 1, r.m),
                         !.nwrite = @ + 1,
                         !.wwerr = r.e,
                         !.failed = IF @ = 0 THEN r.e ELSE @,
                         !.pc = next]

\* the loop is left; ww := errw{w: w}; ww.write(chunks[0])
WriteFirst ==
    /\ xc.pc = "scan"
    /\ ~(xc.has < 3 /\ xc.at < Len(xc.in))
    /\ errwWrite(xc.chunks[1], "jfif")
    /\ UNCHANGED <<hdr, ops, eager, faulty, copyvars, pairvars>>

\* ww.write(jfifChunk)
WriteJfif ==
    /\ xc.pc = "jfif"
    /\ errwWrite(xc.jfifChunk, "jfxx")
    /\ UNCHANGED <<hdr, ops, eager, faulty, copyvars, pairvars>>

\* ww.write(jfxxChunk)
WriteJfxx ==
    /\ xc.pc = "jfxx"
    /\ errwWrite(xc.jfxxChunk, "exif")
    /\ UNCHANGED <<hdr, ops, eager, faulty, copyvars, pairvars>>

\* if exifdata != nil { err := xjpeg.WriteChunk(w, 0xe1, exifdata); .. }
WriteExif ==
    /\ xc.pc = "exif"
    /\ IF xc.hasx
       THEN \E r \in Write(NewExifChunk) :
               xc' = [xc EXCEPT !.out = @ \o SubSeq(NewExifChunk, 1, r.m),
                                !.nwrite = @ + 1,
                                !.ret = r.e,
                                !.rest = 1,
                                !.pc = IF r.e # 0 THEN "done" ELSE "rest"]
       ELSE xc' = [xc EXCEPT !.rest = 1, !.pc = "rest"]
    /\ UNCHANGED <<hdr, ops, eager, faulty, copyvars, pairvars>>

\* for _, chunk := range chunks[1:] { ww.write(chunk) }: one turn
WriteRest ==
    /\ xc.pc = "rest"
    /\ xc.rest < Len(xc.chunks)
    /\ \E r \in Write(xc.chunks[xc.rest + 1]) :
          xc' = [xc EXCEPT !.out = @ \o SubSeq(xc.chunks[xc.rest + 1], 1, r.m),
                           !.nwrite = @ + 1,
                           !.wwerr = r.e,
                           !.failed = IF @ = 0 THEN r.e ELSE @,
                           !.rest = @ + 1]
    /\ UNCHANGED <<hdr, ops, eager, faulty, copyvars, pairvars>>

\* if ww.err != nil { return ww.err }
CheckErr ==
    /\ xc.pc = "rest"
    /\ xc.rest >= Len(xc.chunks)
    /\ IF xc.wwerr # 0
       THEN xc' = [xc EXCEPT !.ret = xc.wwerr, !.pc = "done"]
       ELSE xc' = [xc EXCEPT !.pc = "copy"]
    /\ UNCHANGED <<hdr, ops, eager, faulty, copyvars, pairvars>>

\* _, err = io.Copy(w, j.Reader()); return err
CopyRemainder ==
    /\ xc.pc = "copy"
    /\ LET p == Flatten(SubSeq(xc.in, xc.at + 1, Len(xc.in))) \o ImageData
       IN  \E r \in Write(p) :
              xc' = [xc EXCEPT !.out = @ \o SubSeq(p, 1, r.m),
                               !.nwrite = @ + 1,
                               !.copied = TRUE,
                               !.ret = r.e,
                               !.pc = "done"]
    /\ UNCHANGED <<hdr, ops, eager, faulty, copyvars, pairvars>>

NextExif ==
    \/ CallCopy
    \/ Decode
    \/ ScanChunk
    \/ WriteFirst
    \/ WriteJfif
    \/ WriteJfxx
    \/ WriteExif
    \/ WriteRest
    \/ CheckErr
    \/ CopyRemainder

SpecExif == InitExif /\ [][NextExif]_vars

\* Copy has returned
Copied == xc.pc = "done" /\ xc.kind = "Copy"

\* the chunks among the first k of in that are not the first JFIF, the first
\* JFXX or the first Exif chunk, by the header patterns as written in the
\* source
RECURSIVE Others(_, _, _, _, _)
Others(in, k, jf, jx, ex) ==
    IF k > Len(in) THEN <<>>
    ELSE IF ~jf /\ cmpChunkHeader(in[k], Headers.jfifChunkHeader)
         THEN Others(in, k + 1, TRUE, jx, ex)
    ELSE IF ~jx /\ cmpChunkHeader(in[k], Headers.jfxxChunkHeader)
         THEN Others(in, k + 1, jf, TRUE, ex)
    ELSE IF ~ex /\ cmpChunkHeader(in[k], Headers.exifChunkHeader)
         THEN Others(in, k + 1, jf, jx, TRUE)
    ELSE <<in[k]>> \o Others(in, k + 1, jf, jx, ex)

\* the first chunk of in with the header pattern h, or nothing
FirstWith(in, h) ==
    LET found == {k \in 1..Len(in) : cmpChunkHeader(in[k], h)}
    IN  IF found = {} THEN <<>>
        ELSE in[CHOOSE a \in found : \A b \in found : a <= b]

\* what C13 says Copy writes for the chunks read (the first at of in)
Preserved ==
    LET read == SubSeq(xc.in, 1, xc.at)
        others == Others(read, 1, FALSE, FALSE, FALSE)
    IN  others[1]
          \o FirstWith(read, Headers.jfifChunkHeader)
          \o FirstWith(read, Headers.jfxxChunkHeader)
          \o (IF xc.hasx THEN NewExifChunk ELSE <<>>)
          \o Flatten(Tail(others))
          \o Flatten(SubSeq(xc.in, xc.at + 1, Len(xc.in)))
          \o ImageData

\* C13: exif.Copy preserves non-Exif content.  When Copy returns nil and no
\* write to w has failed, w holds the first chunk, the JFIF chunk, the JFXX
\* chunk, the new Exif chunk if x is not nil, the other chunks read except the
\* original Exif chunk in their order, and then the unread rest of r, all
\* byte-identical.
C13_PreservesNonExif ==
    (Copied /\ xc.ret = 0 /\ xc.failed = 0) => xc.out = Preserved

\* C14: immutable header templates.  After any sequence of Copy and Decode
\* calls the package-level header patterns hold their initial values.
C14_TemplatesImmutable == hdr = Headers

\* C19: exif.Copy reports write failures.  When a write through errw has
\* failed, Copy returns the first such error and has not copied the rest of r.
C19_WriteFailureReported ==
    (Copied /\ xc.failed # 0) => (xc.ret = xc.failed /\ ~xc.copied)

====
